---- MODULE Spec2Model ----
(***************************************************************************)
(* Model of the colour-database tooling of elliotsnd/color-matcher:        *)
(*   - convert_dulux_to_binary.py : JSON colour list -> "DULX" binary file *)
(*   - test_binary_format.py      : reader of that binary file             *)
(*   - fix_json_format.py         : main() from its step 2 on: the simple  *)
(*                                  binary writer and the search for the   *)
(*                                  colours close to the target            *)
(*   - add_target_colors.py       : target colours put in front of the db  *)
(*   - live_calibration_tool.py   : the interactive tuning loop, with the  *)
(*                                  device it talks to over HTTP           *)
(*   - simple_calibration_tool.py, test_matrix_calibration.py : the other  *)
(*                                  writers of the device's calibration    *)
(* Strings are sequences of Unicode code points, files are sequences of    *)
(* bytes, LRV strings with two decimals are integers counted in 1/100.     *)
(***************************************************************************)
EXTENDS Integers, Sequences, FiniteSets, TLC

VARIABLES
    colors,         \* convert: the value loaded from the JSON file (a list)
    isList,         \* convert: isinstance(colors, list)
    file,           \* bytes of data/dulux.bin
    fexists,        \* whether data/dulux.bin exists
    pcE,            \* convert: position in convert_dulux_to_binary
    ei,             \* convert: loop index i of "for i, color in enumerate(colors)"
    result,         \* convert: return value ("none" until it returns)
    elog,           \* convert: per processed entry, what the loop body did
    tampered,       \* whether the stored file was damaged after it was written
    pcD,            \* reader: position in test_binary_format
    pos,            \* reader: offset of the file object f
    di,             \* reader: loop index i of "for i in range(min(3, color_count))"
    decoded,        \* reader: entries read (and printed) so far
    dresult,        \* reader: return value ("none" until it returns)
    db,             \* colour list stored in data/dulux_fixed.json
    added,          \* add_target_colors: "no", "yes" (returned) or "crashed"
    report,         \* main: what it printed last ("none" until it did)
    pcM,            \* main: position in fix_json_format.main
    m_colors,       \* main: the list "colors" loaded from data/dulux_fixed.json
    mi,             \* main: index of the scan loop "for color in colors"
    close_matches,  \* main: list of (name, r, g, b, distance) + list index
    shown,          \* main: the printed lines, close_matches[:10] after sort
    cal,            \* device: its CalibrationState (matrices, threshold, flags, IR)
    pcT,            \* live tool: position in interactive_calibration
    cmd,            \* live tool: the command being handled
    current_target, \* live tool: target_name, "VIVID WHITE" or "GREY PORT"
    current,        \* live tool: the last colour reading (NoReading for None)
    matrix_type,    \* live tool: what display_status returned last
    suggestions,    \* live tool: what suggest_adjustments returned last
    calib,          \* live tool: the calibration values read at line 195
    si,             \* live tool: index of the loop over suggestions (line 198)
    rounds,         \* number of 'a' commands entered so far (bounded)
    presented,      \* what the 's' command printed last (lines 179-182)
    others,         \* number of updates made by the other two scripts
    sent,           \* simple tool: the request its last update command made
    pcU,            \* update_target_colors: position in main
    runs,           \* update_target_colors: number of runs of main so far
    verdict,        \* update_target_colors: what verify_target_colors printed
    source,         \* fix: the objects data/dulux.json was written from
    content,        \* fix: the text of data/dulux.json
    scan,           \* fix: the scanner's objects, current_obj, brace_count, flags
    ci,             \* fix: number of characters of content scanned so far
    valid_colors,   \* fix: the colours parsed and kept
    pcF,            \* fix: position in fix_json_file
    fixed_json,     \* fix: the list saved in the output file
    fix_result      \* fix: the return value of fix_json_file

codecVars == <<colors, isList, file, fexists, pcE, ei, result, elog, tampered,
               pcD, pos, di, decoded, dresult>>
matchVars == <<db, added, report, pcM, m_colors, mi, close_matches, shown>>
tuneVars == <<cal, pcT, cmd, current_target, current, matrix_type, suggestions,
              calib, si, rounds, presented, others, sent>>
updVars == <<pcU, runs, verdict>>
fixVars == <<source, content, scan, ci, valid_colors, pcF, fixed_json, fix_result>>
jsonVars == <<updVars, fixVars>>
vars == <<codecVars, matchVars, tuneVars, jsonVars>>

----------------------------------------------------------------------------
(* Bounds of the model *)
MaxRecords == 2       \* longest input list given to the converter
MaxDamaged == 3       \* longest input list in the damaged-file specification
MaxDb == 3            \* longest colour list given to the search
MaxRounds == 1        \* most 'a' commands given to the live calibration tool
MaxOthers == 1        \* most updates made by the other calibration scripts
MaxRuns == 2          \* most runs of update_target_colors
MaxObjects == 2       \* most objects in the array given to fix_json_file

----------------------------------------------------------------------------
(* Generic helpers *)
Min(a, b) == IF a < b THEN a ELSE b
Take(s, n) == SubSeq(s, 1, Min(n, Len(s)))
Rep(c, n) == [i \in 1..n |-> c]
SeqsUpTo(S, n) == UNION {[1..k -> S] : k \in 0..n}

\* value of a numeric JSON field that int() / float() cannot convert
NotANumber == -999999

----------------------------------------------------------------------------
(* str.strip(), str.encode('utf-8'), bytes.decode('utf-8') *)
WhiteSpace == {9, 10, 11, 12, 13, 28, 29, 30, 31, 32, 133, 160, 5760,
               8232, 8233, 8239, 8287, 12288} \cup (8192..8202)

RECURSIVE LStrip(_)
LStrip(s) == IF s # <<>> /\ Head(s) \in WhiteSpace THEN LStrip(Tail(s)) ELSE s
RECURSIVE RStrip(_)
RStrip(s) == IF s # <<>> /\ s[Len(s)] \in WhiteSpace
             THEN RStrip(SubSeq(s, 1, Len(s) - 1)) ELSE s
Strip(s) == RStrip(LStrip(s))

Utf8Char(cp) ==
    IF cp < 128 THEN <<cp>>
    ELSE IF cp < 2048 THEN <<192 + (cp \div 64), 128 + (cp % 64)>>
    ELSE IF cp < 65536
         THEN <<224 + (cp \div 4096), 128 + ((cp \div 64) % 64), 128 + (cp % 64)>>
    ELSE <<240 + (cp \div 262144), 128 + ((cp \div 4096) % 64),
           128 + ((cp \div 64) % 64), 128 + (cp % 64)>>

\* the bytes of the characters s[lo..hi], halving the range at each level
RECURSIVE Utf8EncodeRange(_, _, _)
Utf8EncodeRange(s, lo, hi) ==
    IF lo > hi THEN <<>>
    ELSE IF lo = hi THEN Utf8Char(s[lo])
    ELSE LET mid == (lo + hi) \div 2
         IN  Utf8EncodeRange(s, lo, mid) \o Utf8EncodeRange(s, mid + 1, hi)
Utf8Encode(s) == Utf8EncodeRange(s, 1, Len(s))

\* strict decoder: lead byte, continuation bytes, no overlong form, no
\* surrogate, nothing above U+10FFFF; any violation raises UnicodeDecodeError
IsCont(c) == c >= 128 /\ c <= 191
Utf8Width(c0) == IF c0 < 128 THEN 1
                 ELSE IF c0 >= 194 /\ c0 <= 223 THEN 2
                 ELSE IF c0 >= 224 /\ c0 <= 239 THEN 3
                 ELSE IF c0 >= 240 /\ c0 <= 244 THEN 4
                 ELSE 0
Utf8Bad == [ok |-> FALSE, s |-> <<>>]
\* the single character that fills b[lo..hi]
Utf8One(b, lo, hi) ==
    LET c0 == b[lo]
        n == hi - lo + 1
        cp == IF n = 1 THEN c0
              ELSE IF n = 2 THEN (c0 - 192) * 64 + (b[lo + 1] - 128)
              ELSE IF n = 3 THEN (c0 - 224) * 4096 + (b[lo + 1] - 128) * 64
                                 + (b[lo + 2] - 128)
              ELSE (c0 - 240) * 262144 + (b[lo + 1] - 128) * 4096
                   + (b[lo + 2] - 128) * 64 + (b[lo + 3] - 128)
    IN  IF /\ Utf8Width(c0) = n
           /\ \A j \in (lo + 1)..hi : IsCont(b[j])
           /\ (n = 3 => cp >= 2048 /\ ~(cp >= 55296 /\ cp <= 57343))
           /\ (n = 4 => cp >= 65536 /\ cp <= 1114111)
        THEN [ok |-> TRUE, s |-> <<cp>>]
        ELSE Utf8Bad
\* b[lo..hi] is split at a lead byte near its middle and both halves decoded
RECURSIVE Utf8DecodeRange(_, _, _)
Utf8DecodeRange(b, lo, hi) ==
    IF lo > hi THEN [ok |-> TRUE, s |-> <<>>]
    ELSE IF lo + Utf8Width(b[lo]) - 1 >= hi \/ Utf8Width(b[lo]) = 0
         THEN Utf8One(b, lo, hi)
    ELSE LET mid0 == (lo + hi + 1) \div 2
             leads == {i \in (lo + 1)..hi :
                          i >= mid0 - 3 /\ i <= mid0 + 3 /\ ~IsCont(b[i])}
             mid == CHOOSE i \in leads : \A j \in leads : i <= j
             left == Utf8DecodeRange(b, lo, mid - 1)
             right == Utf8DecodeRange(b, mid, hi)
         IN  IF leads = {} THEN Utf8Bad
             ELSE IF left.ok /\ right.ok
                  THEN [ok |-> TRUE, s |-> left.s \o right.s]
             ELSE Utf8Bad
Utf8Decode(b) == Utf8DecodeRange(b, 1, Len(b))

----------------------------------------------------------------------------
(* int(float(lrv_str) * 100) in IEEE-754 binary64, for lrv_str = k/100.    *)
(* float(lrv_str) is the double m * 2^-s nearest to k/100 (2^52 <= m <     *)
(* 2^53), so float(lrv_str) * 100 = k - rp / 2^s exactly, with             *)
(* rp = k * 2^s - 100 * m in -50..50.  The product is rounded to a double  *)
(* and truncated by int(): it falls below k, and int() yields k - 1, when  *)
(* rp exceeds half the spacing of the doubles just below k.                *)
RECURSIVE Log2Up(_, _)
Log2Up(n, d) == IF n >= 2 * d THEN 1 + Log2Up(n, 2 * d) ELSE 0
RECURSIVE Log2Down(_, _)
Log2Down(n, d) == IF n < d THEN Log2Down(2 * n, d) - 1 ELSE 0
FloorLog2(n, d) == IF n >= d THEN Log2Up(n, d) ELSE Log2Down(n, d)
RECURSIVE Pow2Mod(_, _)
Pow2Mod(s, m) == IF s = 0 THEN 1 % m ELSE (2 * Pow2Mod(s - 1, m)) % m
RECURSIVE Pow2(_)
Pow2(n) == IF n = 0 THEN 1 ELSE 2 * Pow2(n - 1)
RECURSIVE IsPow2(_)
IsPow2(k) == IF k % 2 = 0 THEN IsPow2(k \div 2) ELSE k = 1

FloatMul100Int(k) ==
    IF k = 0 THEN 0
    ELSE LET s == 52 - FloorLog2(k, 100)
             rem == ((k % 100) * Pow2Mod(s, 100)) % 100
             rp == IF rem <= 50 THEN rem ELSE rem - 100
             above == Pow2(FloorLog2(k, 1) - 52 + s)
             below == IF IsPow2(k) THEN above \div 2 ELSE above
         IN  IF 2 * rp > below THEN k - 1 ELSE k

\* lines 83-87: lrv_scaled = int(float(lrv_str) * 100), 0 when float() raises
lrv_scaled_of(k) ==
    IF k = NotANumber THEN 0
    ELSE IF k >= 0 THEN FloatMul100Int(k) ELSE 0 - FloatMul100Int(0 - k)

----------------------------------------------------------------------------
(* struct.pack: a value outside the range of the format raises struct.error *)
PackBOk(v) == v >= 0 /\ v <= 255
PackHOk(v) == v >= 0 /\ v <= 65535
PackH(v) == <<v % 256, v \div 256>>
\* an id is hi * 65536 + lo with lo in 0..65535; '<I' accepts 0 <= id < 2^32
PackIOk(id) == id.hi >= 0 /\ id.hi <= 65535
PackI(id) == <<id.lo % 256, id.lo \div 256, id.hi % 256, id.hi \div 256>>
PackSmallI(n) == <<n % 256, (n \div 256) % 256, (n \div 65536) % 256, n \div 16777216>>

magic == <<68, 85, 76, 88>>      \* b'DULX'
version == 1
reserved == 0
Header(count) == magic \o PackSmallI(version) \o PackSmallI(count) \o PackSmallI(reserved)

----------------------------------------------------------------------------
(* convert_dulux_to_binary: the body of the loop over the colours.         *)
(* The result tells what reached the file: status "written" (the whole     *)
(* entry), "skipped" (the RGB check said continue) or "error" (an          *)
(* exception left the try block, after the bytes already written).         *)
ValidRGB_OnlyRed(r, g, b) == r >= 0 /\ r <= 255
ValidRGB(r, g, b) ==
    r >= 0 /\ r <= 255 /\ g >= 0 /\ g <= 255 /\ b >= 0 /\ b <= 255

ClampLrv(v) == IF v > 65535 THEN 65535 ELSE v

Truncate(s) == IF Len(Utf8Encode(s)) > 255 THEN Take(s, 200) ELSE s

Outcome(st, bs, nm, cd, lrv) ==
    [status |-> st, bytes |-> bs, name |-> nm, code |-> cd, lrv_scaled |-> lrv]

WriteEntry(color) ==
    LET name == Truncate(Strip(color.name))
        code == Truncate(Strip(color.code))
        name_bytes == Utf8Encode(name)
        code_bytes == Utf8Encode(code)
        lrv_scaled == ClampLrv(lrv_scaled_of(color.lrv))
        light_text == IF color.lightText THEN 1 ELSE 0
        b1 == <<color.r, color.g, color.b>>
        b2 == b1 \o PackH(lrv_scaled)
        b3 == b2 \o PackI(color.id)
        b4 == b3 \o <<Len(name_bytes)>> \o name_bytes
        b5 == b4 \o <<Len(code_bytes)>> \o code_bytes \o <<light_text>>
    IN  IF NotANumber \in {color.r, color.g, color.b}
          THEN Outcome("error", <<>>, name, code, lrv_scaled)
        ELSE IF ~ValidRGB(color.r, color.g, color.b)
          THEN Outcome("skipped", <<>>, name, code, lrv_scaled)
        ELSE IF ~(PackBOk(color.r) /\ PackBOk(color.g) /\ PackBOk(color.b))
          THEN Outcome("error", <<>>, name, code, lrv_scaled)
        ELSE IF ~PackHOk(lrv_scaled)
          THEN Outcome("error", b1, name, code, lrv_scaled)
        ELSE IF ~PackIOk(color.id)
          THEN Outcome("error", b2, name, code, lrv_scaled)
        ELSE IF ~PackBOk(Len(name_bytes))
          THEN Outcome("error", b3, name, code, lrv_scaled)
        ELSE IF ~PackBOk(Len(code_bytes))
          THEN Outcome("error", b4, name, code, lrv_scaled)
        ELSE Outcome("written", b5, name, code, lrv_scaled)

(* lines 40-49: the JSON value is not a list: return False, no file opened *)
ConvertRejectInput ==
    /\ pcE = "start" /\ ~isList
    /\ pcE' = "done" /\ result' = "False"
    /\ UNCHANGED <<colors, isList, file, fexists, ei, elog, tampered,
                   pcD, pos, di, decoded, dresult, matchVars, tuneVars, jsonVars>>

(* lines 53-67: open the binary file and write the 16-byte header *)
ConvertWriteHeader ==
    /\ pcE = "start" /\ isList
    /\ file' = Header(Len(colors))
    /\ fexists' = TRUE
    /\ ei' = 0
    /\ pcE' = "loop"
    /\ UNCHANGED <<colors, isList, result, elog, tampered,
                   pcD, pos, di, decoded, dresult, matchVars, tuneVars, jsonVars>>

(* lines 70-126: one iteration of the loop *)
ConvertEntry ==
    /\ pcE = "loop" /\ ei < Len(colors)
    /\ LET out == WriteEntry(colors[ei + 1])
       IN  /\ file' = file \o out.bytes
           /\ elog' = Append(elog, out)
    /\ ei' = ei + 1
    /\ UNCHANGED <<colors, isList, fexists, pcE, result, tampered,
                   pcD, pos, di, decoded, dresult, matchVars, tuneVars, jsonVars>>

(* lines 128-148: the loop is over, the file is closed, return True *)
ConvertReturn ==
    /\ pcE = "loop" /\ ei = Len(colors)
    /\ pcE' = "done" /\ result' = "True"
    /\ UNCHANGED <<colors, isList, file, fexists, ei, elog, tampered,
                   pcD, pos, di, decoded, dresult, matchVars, tuneVars, jsonVars>>

----------------------------------------------------------------------------
(* test_binary_format: the reader of the binary file                       *)
Read(f, p, n) == SubSeq(f, p + 1, Min(p + n, Len(f)))
UnpackH(bs) == bs[1] + 256 * bs[2]
UnpackI(bs) == [lo |-> bs[1] + 256 * bs[2], hi |-> bs[3] + 256 * bs[4]]
\* the count is compared with 0 and 3 only; its value is kept below 2^31
UnpackCount(bs) == bs[1] + 256 * bs[2] + 65536 * bs[3] + 16777216 * (bs[4] % 128)

NoEntry == [ok |-> FALSE, pos |-> 0, rec |-> <<>>]
ReadEntry(f, p) ==
    LET fixed == Read(f, p, 10)
        name_len == fixed[10]
        name_raw == Read(f, p + 10, name_len)
        name == Utf8Decode(name_raw)
        p2 == p + 10 + Len(name_raw)
        code_len == Read(f, p2, 1)
        code_raw == Read(f, p2 + 1, code_len[1])
        code == Utf8Decode(code_raw)
        p3 == p2 + 1 + Len(code_raw)
        light_text == Read(f, p3, 1)
    IN  IF Len(fixed) < 10 THEN NoEntry
        ELSE IF ~name.ok THEN NoEntry
        ELSE IF Len(code_len) < 1 THEN NoEntry
        ELSE IF ~code.ok THEN NoEntry
        ELSE IF Len(light_text) < 1 THEN NoEntry
        ELSE [ok |-> TRUE, pos |-> p3 + 1,
              rec |-> [name |-> name.s, code |-> code.s,
                       r |-> fixed[1], g |-> fixed[2], b |-> fixed[3],
                       lrv |-> UnpackH(SubSeq(fixed, 4, 5)),
                       id |-> UnpackI(SubSeq(fixed, 6, 9)),
                       lightText |-> light_text[1] # 0]]

HeaderCount(f) == UnpackCount(SubSeq(f, 9, 12))
HeaderValid_AnyVersion(f) ==
    /\ Len(f) >= 16
    /\ SubSeq(f, 1, 4) = magic
    /\ HeaderCount(f) # 0
HeaderValid(f) ==
    /\ Len(f) >= 16
    /\ SubSeq(f, 1, 4) = magic
    /\ SubSeq(f, 5, 8) = PackSmallI(version)
    /\ HeaderCount(f) # 0

(* lines 12-16: the binary file does not exist *)
TestNoFile ==
    /\ pcE = "done" /\ pcD = "start" /\ ~fexists
    /\ pcD' = "done" /\ dresult' = "False"
    /\ UNCHANGED <<colors, isList, file, fexists, pcE, ei, result, elog,
                   tampered, pos, di, decoded, matchVars, tuneVars, jsonVars>>

(* lines 20-48: read and validate the header *)
TestReadHeader ==
    /\ pcE = "done" /\ pcD = "start" /\ fexists
    /\ IF HeaderValid(file)
       THEN pcD' = "loop" /\ pos' = 16 /\ di' = 0 /\ dresult' = dresult
       ELSE pcD' = "done" /\ dresult' = "False" /\ pos' = Min(16, Len(file))
            /\ di' = di
    /\ UNCHANGED <<colors, isList, file, fexists, pcE, ei, result, elog,
                   tampered, decoded, matchVars, tuneVars, jsonVars>>

TestReadEntry_SkipBad ==
    /\ pcD = "loop" /\ di < Min(3, HeaderCount(file))
    /\ LET e == ReadEntry(file, pos)
       IN  IF e.ok
           THEN /\ decoded' = Append(decoded, e.rec)
                /\ pos' = e.pos /\ di' = di + 1
                /\ pcD' = pcD /\ dresult' = dresult
           ELSE /\ di' = di + 1
                /\ UNCHANGED <<decoded, pos, pcD, dresult>>
    /\ UNCHANGED <<colors, isList, file, fexists, pcE, ei, result, elog,
                   tampered, matchVars, tuneVars, jsonVars>>
(* lines 53-88: one iteration of the loop over the first entries *)
TestReadEntry ==
    /\ pcD = "loop" /\ di < Min(3, HeaderCount(file))
    /\ LET e == ReadEntry(file, pos)
       IN  IF e.ok
           THEN /\ decoded' = Append(decoded, e.rec)
                /\ pos' = e.pos /\ di' = di + 1
                /\ pcD' = pcD /\ dresult' = dresult
           ELSE /\ pcD' = "done" /\ dresult' = "False"
                /\ UNCHANGED <<decoded, pos, di>>
    /\ UNCHANGED <<colors, isList, file, fexists, pcE, ei, result, elog,
                   tampered, matchVars, tuneVars, jsonVars>>

(* lines 90-96: all the tested entries were read: return True *)
TestReturn ==
    /\ pcD = "loop" /\ di = Min(3, HeaderCount(file))
    /\ pcD' = "done" /\ dresult' = "True"
    /\ UNCHANGED <<colors, isList, file, fexists, pcE, ei, result, elog,
                   tampered, pos, di, decoded, matchVars, tuneVars, jsonVars>>

----------------------------------------------------------------------------
(* Inputs of the converter *)
U32(h, l) == [hi |-> h, lo |-> l]
Color(nm, cd, rr, gg, bb, lv, idv, lt) ==
    [name |-> nm, code |-> cd, r |-> rr, g |-> gg, b |-> bb, lrv |-> lv,
     id |-> idv, lightText |-> lt]
BaseColor == Color(<<65>>, <<67>>, 1, 2, 3, 7940, U32(0, 7), TRUE)
WithName(nm) == [BaseColor EXCEPT !.name = nm]
WithLrv(k) == [BaseColor EXCEPT !.lrv = k]

SampleNames == {<<32, 65>>,            \* " A"
                Rep(233, 127),         \* 254 bytes of 2-byte characters
                Rep(65, 256),          \* 256 ASCII bytes
                Rep(233, 128),         \* 256 bytes, 128 characters
                Rep(8364, 86),         \* 258 bytes of 3-byte characters
                Rep(128512, 64)}       \* 256 bytes of 4-byte characters
SampleLrvs == {29, 65535, 65536, 70000, -50, NotANumber}
SampleColors ==
    {BaseColor}
    \cup {WithName(nm) : nm \in SampleNames}
    \cup {WithLrv(k) : k \in SampleLrvs}
    \cup {[BaseColor EXCEPT !.code = Rep(233, 128)],
          [BaseColor EXCEPT !.r = 256],
          [BaseColor EXCEPT !.g = -1, !.lightText = FALSE],
          [BaseColor EXCEPT !.b = NotANumber],
          [BaseColor EXCEPT !.r = 255, !.g = 0, !.id = U32(65535, 65535)],
          [BaseColor EXCEPT !.id = U32(65536, 0)],
          [BaseColor EXCEPT !.id = U32(-1, 65535)]}

----------------------------------------------------------------------------
(* The stored file may be damaged between the conversion and the reading   *)
(* (a partially corrupted flash image): test_binary_format reads whatever  *)
(* bytes data/dulux.bin holds.                                             *)
RECURSIVE EntryOffset(_)
EntryOffset(j) ==
    IF j = 1 THEN 16 ELSE EntryOffset(j - 1) + Len(elog[j - 1].bytes)

DamageFile ==
    /\ pcE = "done" /\ pcD = "start" /\ fexists /\ ~tampered
    /\ \/ \E n \in 0..(Len(file) - 1) : file' = SubSeq(file, 1, n)
       \/ \E i \in 1..4 : file' = [file EXCEPT ![i] = 0]
       \/ file' = [file EXCEPT ![5] = 2]
       \/ file' = [file EXCEPT ![9] = (file[9] + 1) % 256]
       \/ \E j \in 1..Len(elog) :
              /\ elog[j].status = "written"
              /\ file' = [file EXCEPT ![EntryOffset(j) + 10] = 255]
    /\ tampered' = TRUE
    /\ UNCHANGED <<colors, isList, fexists, pcE, ei, result, elog,
                   pcD, pos, di, decoded, dresult, matchVars, tuneVars, jsonVars>>

DamagedColors == {BaseColor,
                  Color(<<233>>, <<>>, 255, 0, 128, 29, U32(1, 2), FALSE)}

(* The device's calibration.  A matrix coefficient is an integer counted in *)
(* 1/10000 (0.1054 is 1054, the step 0.001 is 10, 1.0007 is 10007), an IR  *)
(* compensation factor is an integer counted in 1/100 (0.30 is 30).        *)
expected_bright == <<1054, -170, -260, -170, 785, 17, 52, -100, 1268>>
expected_dark == <<370, -120, -80, -120, 320, 20, 20, -40, 580>>
ExpectedCal ==
    [brightMatrix |-> expected_bright, darkMatrix |-> expected_dark,
     dynamicThreshold |-> 8000,
     useMatrixCalibration |-> TRUE, enableDynamicCalibration |-> TRUE,
     ir1Comp |-> 30, ir2Comp |-> 30]
NoReading == [ok |-> FALSE]
NoRequest == [made |-> FALSE]

UpdIdle == pcU = "off" /\ runs = 0 /\ verdict = <<>>
ScanStart ==
    [objects |-> <<>>, current_obj |-> <<>>, brace_count |-> 0,
     in_string |-> FALSE, escape_next |-> FALSE]
FixIdle ==
    /\ source = <<>> /\ content = <<>> /\ scan = ScanStart /\ ci = 0
    /\ valid_colors = <<>>
    /\ pcF = "off" /\ fixed_json = <<>> /\ fix_result = 0
JsonIdle == UpdIdle /\ FixIdle

TuneIdle ==
    /\ cal = ExpectedCal /\ pcT = "off" /\ cmd = "none"
    /\ current_target = "VIVID WHITE" /\ current = NoReading
    /\ matrix_type = "none" /\ suggestions = <<>> /\ calib = NoReading
    /\ si = 0 /\ rounds = 0 /\ presented = <<>>
    /\ others = 0 /\ sent = NoRequest

MatchIdle ==
    /\ db = <<>> /\ added = "no" /\ report = "none" /\ pcM = "off"
    /\ m_colors = <<>> /\ mi = 0 /\ close_matches = <<>> /\ shown = <<>>

CodecStart ==
    /\ file = <<>> /\ fexists = FALSE /\ pcE = "start" /\ ei = 0
    /\ result = "none" /\ elog = <<>> /\ tampered = FALSE
    /\ pcD = "start" /\ pos = 0 /\ di = 0 /\ decoded = <<>> /\ dresult = "none"

Init ==
    /\ isList \in BOOLEAN
    /\ colors \in (IF isList THEN SeqsUpTo(SampleColors, MaxRecords) ELSE {<<>>})
    /\ CodecStart
    /\ MatchIdle
    /\ TuneIdle
    /\ JsonIdle

Next ==
    \/ ConvertRejectInput
    \/ ConvertWriteHeader
    \/ ConvertEntry
    \/ ConvertReturn
    \/ TestNoFile
    \/ TestReadHeader
    \/ TestReadEntry
    \/ TestReturn

Spec == Init /\ [][Next]_vars

InitDamaged ==
    /\ isList \in BOOLEAN
    /\ colors \in (IF isList THEN SeqsUpTo(DamagedColors, MaxDamaged) ELSE {<<>>})
    /\ CodecStart
    /\ MatchIdle
    /\ TuneIdle
    /\ JsonIdle

NextDamaged == Next \/ DamageFile

SpecDamaged == InitDamaged /\ [][NextDamaged]_vars

----------------------------------------------------------------------------
(* Properties of the converter                                             *)
Written == {i \in 1..Len(elog) : elog[i].status = "written"}
StrOk(t) == Len(Utf8Encode(t)) <= 255
RgbInRange(c) == c.r \in 0..255 /\ c.g \in 0..255 /\ c.b \in 0..255
IdInRange(c) == c.id.hi \in 0..65535 /\ c.id.lo \in 0..65535
LrvInRange(c) == c.lrv \in 0..65535
ValidRecord(c) ==
    RgbInRange(c) /\ LrvInRange(c) /\ IdInRange(c) /\ StrOk(c.name) /\ StrOk(c.code)
IsPrefix(a, t) == Len(a) <= Len(t) /\ a = SubSeq(t, 1, Len(a))

\* C1: round trip - when every input record is valid (rgb in 0..255, lrv a
\* two-decimal value in [0, 655.35], id a uint32, name and code of at most
\* 255 UTF-8 bytes), the reader yields the input records, in order, with
\* every field equal to the input.
C1_RoundTrip ==
    (pcD = "done" /\ isList /\ Len(colors) \in 1..3
        /\ \A i \in 1..Len(colors) : ValidRecord(colors[i]))
    => (dresult = "True" /\ decoded = colors)

\* C2: once the converter is done, the count field of the header equals the
\* number of records that follow the header in the file.
C2_HeaderCountMatches ==
    (pcE = "done" /\ fexists) => HeaderCount(file) = Cardinality(Written)

\* C3 (as stated): the converter does not report success when an input
\* record has an r, g or b component outside [0,255].
OutOfRangeRgb(c) == NotANumber \notin {c.r, c.g, c.b} /\ ~RgbInRange(c)
C3_InvalidRgbFails ==
    (pcE = "done" /\ \E i \in 1..Len(colors) : OutOfRangeRgb(colors[i]))
    => result = "False"

\* C3 (amended): a record with an r, g or b component outside [0,255] is
\* skipped, none of its bytes reaches the file, and the converter still
\* returns True for every input list.
C3_InvalidRgbSkipped ==
    /\ \A i \in 1..Len(elog) :
          OutOfRangeRgb(colors[i])
          => (elog[i].status = "skipped" /\ elog[i].bytes = <<>>)
    /\ (pcE = "done" /\ isList) => (result = "True" /\ Len(elog) = Len(colors))
C3_Witness ==
    /\ pcE = "done" /\ result = "True"
    /\ \E i \in 1..Len(colors) : OutOfRangeRgb(colors[i])
    /\ Written # {}

\* C4: a record whose name or code is longer than 255 UTF-8 bytes is still
\* emitted, with a string that is a prefix of the original of at most 255
\* bytes (a whole number of characters).
Overlong(c) == ~StrOk(Strip(c.name)) \/ ~StrOk(Strip(c.code))
C4_OverlongTruncated ==
    \A i \in 1..Len(elog) :
        (Overlong(colors[i]) /\ RgbInRange(colors[i]) /\ LrvInRange(colors[i])
             /\ IdInRange(colors[i]))
        => /\ elog[i].status = "written"
           /\ IsPrefix(elog[i].name, Strip(colors[i].name)) /\ StrOk(elog[i].name)
           /\ IsPrefix(elog[i].code, Strip(colors[i].code)) /\ StrOk(elog[i].code)

\* C5: an LRV below 0 or above 655.35 is clamped, not rejected: the record
\* is written, with lrv_scaled 0 for a negative LRV and 65535 for one above
\* 655.35.
C5_LrvClamped ==
    \A i \in 1..Len(elog) :
        (colors[i].lrv # NotANumber /\ ~LrvInRange(colors[i])
             /\ RgbInRange(colors[i]) /\ IdInRange(colors[i])
             /\ StrOk(colors[i].name) /\ StrOk(colors[i].code))
        => /\ elog[i].status = "written"
           /\ elog[i].lrv_scaled = (IF colors[i].lrv < 0 THEN 0 ELSE 65535)

----------------------------------------------------------------------------
(* Properties of the reader                                                *)
\* the first n entries of f, read one after the other from offset p, as far
\* as they can be read
RECURSIVE Readable(_, _, _)
Readable(f, p, n) ==
    IF n = 0 \/ ~ReadEntry(f, p).ok THEN <<>>
    ELSE <<ReadEntry(f, p).rec>> \o Readable(f, ReadEntry(f, p).pos, n - 1)
BadHeader(f) ==
    Len(f) < 16 \/ SubSeq(f, 1, 4) # magic \/ SubSeq(f, 5, 8) # PackSmallI(version)
Declared(f) == Min(HeaderCount(f), MaxDamaged + 2)
ShortOfDeclared(f) == Len(Readable(f, 16, Declared(f))) < Declared(f)
Tested(f) == Min(3, HeaderCount(f))

EntryAsWritten(j) == ReadEntry(Header(1) \o elog[j].bytes, 16).rec
SecondOverruns ==
    /\ fexists /\ ~BadHeader(file) /\ HeaderCount(file) = 3
    /\ Len(elog) = 3 /\ Written = {1, 2, 3}
    /\ ReadEntry(file, 16).ok
    /\ ~ReadEntry(file, ReadEntry(file, 16).pos).ok
----------------------------------------------------------------------------
(* create_binary_database (fix_json_format.py lines 100-165, the same code *)
(* in add_target_colors.py lines 59-123): header, then per colour the name *)
(* and the code as null-terminated strings, the clamped rgb, the LRV as a  *)
(* little-endian float32.  int(color['r']) is not guarded: a colour whose  *)
(* r, g or b is not a number raises ValueError, which leaves the function  *)
(* with the entries before that colour written.                            *)

\* struct.pack('<f', k/100): the float32 nearest to k/100, ties to even
Float32(k) ==
    IF k = 0 THEN <<0, 0, 0, 0>>
    ELSE LET a == IF k < 0 THEN 0 - k ELSE k
             e0 == FloorLog2(a, 100)
             num == a * Pow2(23 - e0)
             q0 == num \div 100
             rem == num % 100
             q1 == IF rem > 50 \/ (rem = 50 /\ q0 % 2 = 1) THEN q0 + 1 ELSE q0
             carry == q1 = 16777216
             mant == IF carry THEN 0 ELSE q1 - 8388608
             ex == (IF carry THEN e0 + 1 ELSE e0) + 127
         IN  <<mant % 256, (mant \div 256) % 256,
               (mant \div 65536) + 128 * (ex % 2),
               (ex \div 2) + (IF k < 0 THEN 128 ELSE 0)>>

\* int(color['r']), int(color['g']), int(color['b']) all succeed
Parses(color) == NotANumber \notin {color.r, color.g, color.b}
ClampByte(v) == IF v < 0 THEN 0 ELSE IF v > 255 THEN 255 ELSE v
DefaultLrv == 5000      \* "lrv = 50.0  # Default LRV"
SimpleEntry(color) ==
    Utf8Encode(Take(color.name, 31)) \o <<0>>
    \o Utf8Encode(Take(color.code, 15)) \o <<0>>
    \o <<ClampByte(color.r), ClampByte(color.g), ClampByte(color.b)>>
    \o Float32(IF color.lrv = NotANumber THEN DefaultLrv ELSE color.lrv)
RECURSIVE SimpleEntries(_, _)
SimpleEntries(list, n) ==
    IF n = 0 THEN <<>> ELSE SimpleEntries(list, n - 1) \o SimpleEntry(list[n])
create_binary_database(list) ==
    LET bad == {i \in 1..Len(list) : ~Parses(list[i])}
        n == IF bad = {} THEN Len(list)
             ELSE (CHOOSE i \in bad : \A j \in bad : i <= j) - 1
    IN  [ok |-> bad = {}, bytes |-> Header(Len(list)) \o SimpleEntries(list, n)]

----------------------------------------------------------------------------
(* fix_json_format main() after step 1 (fix_dulux_json has stored the      *)
(* objects it kept, db, in data/dulux_fixed.json), and add_target_colors.  *)
target_r == 168
target_g == 160
target_b == 147
MatchRadius == 10       \* "if distance < 10"
TopShown == 10          \* "close_matches[:10]"

\* square of distance = ((r-target_r)**2 + (g-target_g)**2 + (b-target_b)**2)**0.5
Dist2(color) ==
    (color.r - target_r) * (color.r - target_r)
    + (color.g - target_g) * (color.g - target_g)
    + (color.b - target_b) * (color.b - target_b)
\* distance < 10: the square root of an integer is below 10 exactly when the
\* integer is below 100 (sqrt(100) is 10.0, sqrt(99) is 9.94...)
Within_Inclusive(d2) == d2 <= MatchRadius * MatchRadius
Within(d2) == d2 < MatchRadius * MatchRadius

\* list.sort(key=distance): stable, an entry goes after every entry whose
\* distance is not larger.  Distinct squares below 100 have distinct square
\* roots, so the order by distance is the order by its square.
RECURSIVE InsertSorted(_, _)
InsertSorted(m, sorted) ==
    IF sorted = <<>> THEN <<m>>
    ELSE IF Head(sorted).d2 <= m.d2
         THEN <<Head(sorted)>> \o InsertSorted(m, Tail(sorted))
    ELSE <<m>> \o sorted
RECURSIVE InsertBeforeEqual(_, _)
InsertBeforeEqual(m, sorted) ==
    IF sorted = <<>> THEN <<m>>
    ELSE IF Head(sorted).d2 < m.d2
         THEN <<Head(sorted)>> \o InsertBeforeEqual(m, Tail(sorted))
    ELSE <<m>> \o sorted
RECURSIVE SortUnstable(_)
SortUnstable(ms) ==
    IF ms = <<>> THEN <<>>
    ELSE InsertBeforeEqual(ms[Len(ms)], SortUnstable(SubSeq(ms, 1, Len(ms) - 1)))
RECURSIVE SortByDistance(_)
SortByDistance(ms) ==
    IF ms = <<>> THEN <<>>
    ELSE InsertSorted(ms[Len(ms)], SortByDistance(SubSeq(ms, 1, Len(ms) - 1)))

\* add_target_colors.py lines 20-41
GreyPort == <<71, 114, 101, 121, 32, 80, 111, 114, 116>>     \* "Grey Port"
Aura == <<65, 117, 114, 97>>                                 \* "Aura"
TargetColor(nm, cd, lv, rr, gg, bb, idv) ==
    [name |-> nm, code |-> cd, lrv |-> lv, r |-> rr, g |-> gg, b |-> bb,
     id |-> idv, lightText |-> TRUE]
target_colors(list) ==
    <<TargetColor(GreyPort, <<71, 80, 48, 48, 49>>, 4200, 168, 160, 147,
                  Len(list) + 1),
      TargetColor(Aura, <<65, 85, 48, 48, 49>>, 4500, 178, 167, 161,
                  Len(list) + 2)>>

(* add_target_colors.py lines 10-57: the targets go in front of the list,  *)
(* the list is saved, the binary file is rewritten                         *)
AddTargetColors ==
    /\ pcM \in {"done", "crashed"} /\ added = "no"
    /\ db' = target_colors(db) \o db
    /\ LET out == create_binary_database(db')
       IN  /\ file' = out.bytes
           /\ fexists' = TRUE
           /\ added' = IF out.ok THEN "yes" ELSE "crashed"
    /\ UNCHANGED <<colors, isList, pcE, ei, result, elog, tampered,
                   pcD, pos, di, decoded, dresult,
                   report, pcM, m_colors, mi, close_matches, shown, tuneVars, jsonVars>>

(* lines 178-182: fix_dulux_json kept no object: "No valid colors found!" *)
NoColors_AtMostOne(n) == n <= 1
NoColors(n) == n = 0
MainNoColors ==
    /\ pcM = "start" /\ NoColors(Len(db))
    /\ report' = "No valid colors found!"
    /\ pcM' = "done"
    /\ UNCHANGED <<codecVars, db, added, m_colors, mi, close_matches, shown, tuneVars, jsonVars>>

(* lines 184-200: step 2 writes the binary file, step 3 loads the list *)
MainCreateBinary ==
    /\ pcM = "start" /\ ~NoColors(Len(db))
    /\ LET out == create_binary_database(db)
       IN  /\ file' = out.bytes
           /\ fexists' = TRUE
           /\ IF out.ok
              THEN /\ pcM' = "scan" /\ m_colors' = db /\ mi' = 0
                   /\ close_matches' = <<>> /\ report' = report
              ELSE /\ pcM' = "crashed" /\ report' = "ValueError"
                   /\ UNCHANGED <<m_colors, mi, close_matches>>
    /\ UNCHANGED <<colors, isList, pcE, ei, result, elog, tampered,
                   pcD, pos, di, decoded, dresult, db, added, shown, tuneVars, jsonVars>>

(* lines 202-209: one iteration of the scan *)
MainScan ==
    /\ pcM = "scan" /\ mi < Len(m_colors)
    /\ LET color == m_colors[mi + 1]
       IN  close_matches' =
             IF Parses(color) /\ Within(Dist2(color))
             THEN Append(close_matches,
                         [name |-> color.name, r |-> color.r, g |-> color.g,
                          b |-> color.b, d2 |-> Dist2(color), idx |-> mi + 1])
             ELSE close_matches
    /\ mi' = mi + 1
    /\ UNCHANGED <<codecVars, db, added, report, pcM, m_colors, shown, tuneVars, jsonVars>>

(* lines 211-215: sort by distance, print the first ten *)
MainShow ==
    /\ pcM = "scan" /\ mi = Len(m_colors)
    /\ close_matches' = SortByDistance(close_matches)
    /\ shown' = Take(close_matches', TopShown)
    /\ report' = "Colors close to Grey Port"
    /\ pcM' = "done"
    /\ UNCHANGED <<codecVars, db, added, m_colors, mi, tuneVars, jsonVars>>

DbColor(nm, rr, gg, bb, idv) ==
    [name |-> nm, code |-> <<67, 48, 48, 48, 48, 49>>, lrv |-> 5000,
     r |-> rr, g |-> gg, b |-> bb, id |-> idv, lightText |-> FALSE]
SampleDb == {DbColor(<<83, 97, 109, 101>>, 168, 160, 147, 11),     \* "Same"
             DbColor(<<82, 101, 100>>, 170, 160, 147, 12),         \* "Red"
             DbColor(<<71, 114, 101, 101, 110>>, 168, 162, 147, 13),
             DbColor(<<69, 100, 103, 101>>, 168, 160, 157, 14),    \* "Edge"
             DbColor(<<66, 108, 97, 99, 107>>, 0, 0, 0, 15),       \* "Black"
             DbColor(<<66, 97, 100>>, NotANumber, 10, 10, 16)}     \* r: "abc"

CodecIdle ==
    /\ colors = <<>> /\ isList = TRUE
    /\ file = <<>> /\ fexists = FALSE /\ pcE = "off" /\ ei = 0
    /\ result = "none" /\ elog = <<>> /\ tampered = FALSE
    /\ pcD = "off" /\ pos = 0 /\ di = 0 /\ decoded = <<>> /\ dresult = "none"

InitMatch ==
    /\ CodecIdle
    /\ db \in SeqsUpTo(SampleDb, MaxDb)
    /\ added = "no" /\ report = "none" /\ pcM = "start"
    /\ m_colors = <<>> /\ mi = 0 /\ close_matches = <<>> /\ shown = <<>>
    /\ TuneIdle
    /\ JsonIdle

NextMatch ==
    \/ AddTargetColors
    \/ MainNoColors
    \/ MainCreateBinary
    \/ MainScan
    \/ MainShow

SpecMatch == InitMatch /\ [][NextMatch]_vars

----------------------------------------------------------------------------
(* Properties of the search                                                *)
Rgb(c) == <<c.r, c.g, c.b>>
Target == <<target_r, target_g, target_b>>
Valid == {i \in 1..Len(m_colors) : Parses(m_colors[i])}
Nearest == {i \in Valid : \A j \in Valid : Dist2(m_colors[i]) <= Dist2(m_colors[j])}
First(S) == CHOOSE i \in S : \A j \in S : i <= j

C9_TiesByPosition ==
    /\ pcM = "done" =>
         /\ \A i, j \in 1..Len(shown) :
               (i < j /\ shown[i].d2 = shown[j].d2) => shown[i].idx < shown[j].idx
         /\ \A i, j \in Valid :
               (i < j /\ Dist2(m_colors[i]) = Dist2(m_colors[j]))
               => \A q \in 1..Len(shown) :
                     shown[q].idx = j => \E p \in 1..(q - 1) : shown[p].idx = i
         /\ shown # <<>> => shown[1].idx = First(Nearest)
         /\ (m_colors # <<>> /\ Rgb(m_colors[1]) = Target)
            => (shown # <<>> /\ shown[1].idx = 1)
    /\ added # "no" =>
         /\ db[1].name = GreyPort /\ Rgb(db[1]) = Target
         /\ db[2].name = Aura
         /\ pcM = "done" /\ m_colors # <<>> => SubSeq(db, 3, Len(db)) = m_colors
C9_Witness ==
    /\ pcM = "done" /\ added = "yes"
    /\ Len(shown) >= 2 /\ shown[1].idx = 1 /\ Rgb(m_colors[1]) = Target
    /\ shown[2].d2 = 0 /\ shown[2].idx = 3

\* C10: when the database yields zero valid records the search reports
\* "not found" explicitly, returns no record and does not crash.
C10_NoneValidReported ==
    (pcM \in {"done", "crashed"} /\ added = "no"
        /\ \A i \in 1..Len(db) : ~Parses(db[i]))
    => (pcM = "done" /\ report = "No valid colors found!" /\ shown = <<>>)

-----------------------------------------------------------------------------
(* The device.  Its firmware is not among the scripts: the Transform       *)
(* Engine below is the one of the specification (IR compensation, matrix   *)
(* selection, matrix multiply, rounding and clamping), in exact arithmetic.*)
(* A sensor sample is [x, y, z, ir1, ir2] in counts; compensated inputs    *)
(* are counted in 1/100 count.                                             *)

IRCompensate_AlsoY(s, c) ==
    <<100 * s.x - c.ir1Comp * s.ir1,
      100 * s.y - c.ir1Comp * s.ir1,
      100 * s.z - c.ir2Comp * s.ir2>>

(* Step 1: X' = X - ir1Comp * IR1, Y' = Y, Z' = Z - ir2Comp * IR2 *)
IRCompensate(s, c) ==
    <<100 * s.x - c.ir1Comp * s.ir1,
      100 * s.y,
      100 * s.z - c.ir2Comp * s.ir2>>

(* Step 2: the matrix the sample is multiplied with *)
SelectMatrix(y, c) ==
    IF ~c.useMatrixCalibration THEN "fixed"
    ELSE IF c.enableDynamicCalibration
         THEN (IF y > c.dynamicThreshold THEN "bright" ELSE "dark")
         ELSE "bright"

(* the fixed linear scaling mode maps X', Y', Z' proportionally to R, G, B; *)
(* its gains are device-specific, 0.03 stands for them here                 *)
fixed_gain == 300
FixedScaling == <<fixed_gain, 0, 0, 0, fixed_gain, 0, 0, 0, fixed_gain>>

MatrixOf(which, c) ==
    IF which = "bright" THEN c.brightMatrix
    ELSE IF which = "dark" THEN c.darkMatrix
    ELSE FixedScaling

(* Step 3: round(M[i][0]*X' + M[i][1]*Y' + M[i][2]*Z') for row i (0..2).   *)
(* The sum is counted in 1/1000000; it is split in thousands to stay in    *)
(* 32 bits: floor((1000*hi + lo + 500000) / 1000000).                      *)
RoundedRow(M, i, in) ==
    LET hi == M[3*i + 1] * (in[1] \div 1000) + M[3*i + 2] * (in[2] \div 1000)
              + M[3*i + 3] * (in[3] \div 1000)
        lo == M[3*i + 1] * (in[1] % 1000) + M[3*i + 2] * (in[2] % 1000)
              + M[3*i + 3] * (in[3] % 1000)
    IN  (hi + ((lo + 500000) \div 1000)) \div 1000

Clamp255(v) == IF v < 0 THEN 0 ELSE IF v > 255 THEN 255 ELSE v

(* the ghost fields "used" and "mul_in" record the matrix identity and the  *)
(* inputs of the multiply                                                   *)
TransformFrom(in, which, c) ==
    [r |-> Clamp255(RoundedRow(MatrixOf(which, c), 0, in)),
     g |-> Clamp255(RoundedRow(MatrixOf(which, c), 1, in)),
     b |-> Clamp255(RoundedRow(MatrixOf(which, c), 2, in)),
     used |-> which, mul_in |-> in]

TransformEngine(s, c) ==
    TransformFrom(IRCompensate(s, c), SelectMatrix(s.y, c), c)

(* GET /api/color: {r, g, b, x, y, z, ir1, ir2} *)
ColorResponse(s, c) ==
    LET t == TransformEngine(s, c)
    IN  [ok |-> TRUE, r |-> t.r, g |-> t.g, b |-> t.b,
         x |-> s.x, y |-> s.y, z |-> s.z, ir1 |-> s.ir1, ir2 |-> s.ir2]

-----------------------------------------------------------------------------
(* live_calibration_tool.py                                                *)
VIVID_WHITE_TARGET == [r |-> 247, g |-> 248, b |-> 244]
GREY_PORT_TARGET == [r |-> 168, g |-> 160, b |-> 147]
TargetOf(target_name) ==
    IF target_name = "VIVID WHITE" THEN VIVID_WHITE_TARGET ELSE GREY_PORT_TARGET

Abs(v) == IF v < 0 THEN 0 - v ELSE v

(* lines 61-67: <<r_error, g_error, b_error, total_error>> *)
calculate_error(cur, target) ==
    <<cur.r - target.r, cur.g - target.g, cur.b - target.b,
      Abs(cur.r - target.r) + Abs(cur.g - target.g) + Abs(cur.b - target.b)>>

(* lines 85-92: the matrix the tool says the device is using *)
display_status(cur) == IF cur.y > 8000 THEN "bright" ELSE "dark"

MatrixName(which) == IF which = "bright" THEN "brightMatrix" ELSE "darkMatrix"

adjustment_factor == 10      \* "adjustment_factor = 0.001"

ChannelSuggestion_From2(err, which, index) ==
    IF Abs(err) >= 2
    THEN <<[matrix |-> MatrixName(which), index |-> index,
            adjustment |-> IF err > 0 THEN 0 - adjustment_factor
                           ELSE adjustment_factor]>>
    ELSE <<>>

(* lines 108-124: the suggestion of one channel, a list of none or one *)
ChannelSuggestion(err, which, index) ==
    IF Abs(err) > 2
    THEN <<[matrix |-> MatrixName(which), index |-> index,
            adjustment |-> IF err > 0 THEN 0 - adjustment_factor
                           ELSE adjustment_factor]>>
    ELSE <<>>

suggest_adjustments_FirstRow(cur, target, which) ==
    LET e == calculate_error(cur, target)
    IN  ChannelSuggestion(e[1], which, 0)
        \o ChannelSuggestion(e[2], which, 1)
        \o ChannelSuggestion(e[3], which, 2)

(* lines 94-126 *)
suggest_adjustments(cur, target, which) ==
    LET e == calculate_error(cur, target)
    IN  ChannelSuggestion(e[1], which, 0)
        \o ChannelSuggestion(e[2], which, 4)
        \o ChannelSuggestion(e[3], which, 8)

Elems(q) == {q[i] : i \in 1..Len(q)}

(* the coefficient the key f"{matrix}{index}" names in a calibration value *)
Coef(c, matrix, index) ==
    IF matrix = "brightMatrix" THEN c.brightMatrix[index + 1]
    ELSE c.darkMatrix[index + 1]

(* POST /api/calibration with one coefficient: the device stores it *)
SetCoef(c, matrix, index, value) ==
    IF matrix = "brightMatrix"
    THEN [c EXCEPT !.brightMatrix[index + 1] = value]
    ELSE [c EXCEPT !.darkMatrix[index + 1] = value]

(* sensor samples: what lies on the sensor when a reading is taken *)
Sample(a, b, c, d, e) == [x |-> a, y |-> b, z |-> c, ir1 |-> d, ir2 |-> e]
Samples ==
    { Sample(7885, 7771, 2830, 100, 100),   \* dark matrix: (175, 160, 147)
      Sample(7697, 7652, 2745, 0, 0),       \* dark matrix: (171, 158, 144)
      Sample(7718, 7784, 2771, 0, 0),       \* dark matrix: (170, 162, 145)
      Sample(5000, 8000, 3000, 100, 100),   \* Y at the expected threshold
      Sample(5000, 8001, 3000, 100, 100),   \* Y just above it
      Sample(100, 100, 100, 0, 0) }         \* a nearly black target

(* calibrations the device may hold when the tool is started *)
InitialCals ==
    { ExpectedCal,
      [ExpectedCal EXCEPT !.dynamicThreshold = 7000],
      [ExpectedCal EXCEPT !.enableDynamicCalibration = FALSE],
      [ExpectedCal EXCEPT !.useMatrixCalibration = FALSE],
      [ExpectedCal EXCEPT !.darkMatrix[1] = 9997] }

Commands == {"q", "v", "g", "r", "s", "a", "x"}    \* "x": any other input

(* lines 222-229: the connection test *)
ToolStart ==
    /\ pcT = "start"
    /\ \E got \in BOOLEAN : pcT' = IF got THEN "prompt" ELSE "no_device"
    /\ UNCHANGED <<codecVars, matchVars, cal, cmd, current_target, current,
                   matrix_type, suggestions, calib, si, rounds, presented,
                   others, sent, jsonVars>>

(* lines 147-165, 171, 186, 213: a command is read and dispatched.  The     *)
(* handlers assign current (167, 173, 188), matrix_type (169, 175, 190),   *)
(* suggestions (176, 191) and calib (195) before they read them, so what   *)
(* the previous command left in them is forgotten here.                    *)
Command ==
    /\ pcT = "prompt"
    /\ current' = NoReading /\ matrix_type' = "none" /\ suggestions' = <<>>
    /\ calib' = NoReading /\ si' = 0
    /\ \E c \in Commands :
          /\ c = "a" => rounds < MaxRounds
          /\ cmd' = c
          /\ rounds' = IF c = "a" THEN rounds + 1 ELSE rounds
          /\ pcT' = IF c = "q" THEN "quit"
                    ELSE IF c \in {"r", "s", "a"} THEN "reading"
                    ELSE "prompt"
          /\ current_target' = IF c = "v" THEN "VIVID WHITE"
                               ELSE IF c = "g" THEN "GREY PORT"
                               ELSE current_target
    /\ UNCHANGED <<codecVars, matchVars, cal, presented, others, sent, jsonVars>>

(* lines 167-169, 173-175, 188-190: get_current_color and display_status *)
ReadColor ==
    /\ pcT = "reading"
    /\ \E got \in BOOLEAN, s \in Samples :
          IF got
          THEN /\ current' = ColorResponse(s, cal)
               /\ matrix_type' = display_status(current')
               /\ pcT' = IF cmd = "r" THEN "prompt" ELSE "proposing"
          ELSE /\ current' = NoReading
               /\ pcT' = "prompt"
               /\ UNCHANGED matrix_type
    /\ UNCHANGED <<codecVars, matchVars, cal, cmd, current_target,
                   suggestions, calib, si, rounds, presented, others, sent, jsonVars>>

Propose_Writing ==
    /\ pcT = "proposing"
    /\ suggestions' = suggest_adjustments(current, TargetOf(current_target),
                                          matrix_type)
    /\ IF cmd = "s"
       THEN /\ presented' = suggestions'
            /\ pcT' = "prompt"
       ELSE /\ pcT' = IF suggestions' # <<>> THEN "applying" ELSE "prompt"
            /\ UNCHANGED presented
    /\ cal' = IF suggestions' # <<>>
              THEN SetCoef(cal, suggestions'[1].matrix, suggestions'[1].index,
                           Coef(cal, suggestions'[1].matrix, suggestions'[1].index)
                           + suggestions'[1].adjustment)
              ELSE cal
    /\ UNCHANGED <<codecVars, matchVars, cmd, current_target, current,
                   matrix_type, calib, si, rounds, others, sent, jsonVars>>

(* lines 176-184 ('s') and 191-193, 210-211 ('a'): suggest_adjustments *)
Propose ==
    /\ pcT = "proposing"
    /\ suggestions' = suggest_adjustments(current, TargetOf(current_target),
                                          matrix_type)
    /\ IF cmd = "s"
       THEN /\ presented' = suggestions'
            /\ pcT' = "prompt"
       ELSE /\ pcT' = IF suggestions' # <<>> THEN "applying" ELSE "prompt"
            /\ UNCHANGED presented
    /\ UNCHANGED <<codecVars, matchVars, cal, cmd, current_target, current,
                   matrix_type, calib, si, rounds, others, sent, jsonVars>>

(* lines 194-197: get_current_calibration *)
ReadCalibration ==
    /\ pcT = "applying"
    /\ \E got \in BOOLEAN :
          IF got
          THEN calib' = cal /\ si' = 0 /\ pcT' = "apply_loop"
          ELSE pcT' = "prompt" /\ UNCHANGED <<calib, si>>
    /\ UNCHANGED <<codecVars, matchVars, cal, cmd, current_target, current,
                   matrix_type, suggestions, rounds, presented, others, sent, jsonVars>>

ApplyOne_StopOnFailure ==
    /\ pcT = "apply_loop" /\ si < Len(suggestions)
    /\ LET sg == suggestions[si + 1]
           current_val == Coef(calib, sg.matrix, sg.index)
           new_val == current_val + sg.adjustment
       IN  \E posted \in BOOLEAN :
              IF posted
              THEN /\ cal' = SetCoef(cal, sg.matrix, sg.index, new_val)
                   /\ si' = si + 1
              ELSE /\ UNCHANGED cal
                   /\ si' = Len(suggestions)
    /\ UNCHANGED <<codecVars, matchVars, pcT, cmd, current_target, current,
                   matrix_type, suggestions, calib, rounds, presented, others, sent, jsonVars>>

(* lines 198-202: one iteration of the loop, with update_matrix (44-59).   *)
(* new_val is a binary64 sum and is posted as str(new_val), which can be   *)
(* off the decimal sum by less than 1/10^15 (0.058 + 0.001 is posted as    *)
(* 0.059000000000000004); counted in 1/10000 the sum is exact.             *)
ApplyOne ==
    /\ pcT = "apply_loop" /\ si < Len(suggestions)
    /\ LET sg == suggestions[si + 1]
           current_val == Coef(calib, sg.matrix, sg.index)
           new_val == current_val + sg.adjustment
       IN  \E posted \in BOOLEAN :
              IF posted
              THEN cal' = SetCoef(cal, sg.matrix, sg.index, new_val)
              ELSE UNCHANGED cal
    /\ si' = si + 1
    /\ UNCHANGED <<codecVars, matchVars, pcT, cmd, current_target, current,
                   matrix_type, suggestions, calib, rounds, presented, others, sent, jsonVars>>

(* lines 204-209: the reading after the adjustments *)
ReadAfter ==
    /\ pcT = "apply_loop" /\ si = Len(suggestions)
    /\ \E got \in BOOLEAN, s \in Samples :
          current' = IF got THEN ColorResponse(s, cal) ELSE NoReading
    /\ pcT' = "prompt"
    /\ UNCHANGED <<codecVars, matchVars, cal, cmd, current_target,
                   matrix_type, suggestions, calib, si, rounds, presented,
                   others, sent, jsonVars>>

InitTune ==
    /\ CodecIdle
    /\ MatchIdle
    /\ JsonIdle
    /\ cal \in InitialCals
    /\ pcT = "start" /\ cmd = "none"
    /\ current_target = "VIVID WHITE" /\ current = NoReading
    /\ matrix_type = "none" /\ suggestions = <<>> /\ calib = NoReading
    /\ si = 0 /\ rounds = 0 /\ presented = <<>>
    /\ others = 0 /\ sent = NoRequest

NextTune ==
    \/ ToolStart
    \/ Command
    \/ ReadColor
    \/ Propose
    \/ ReadCalibration
    \/ ApplyOne
    \/ ReadAfter

SpecTune == InitTune /\ [][NextTune]_vars

-----------------------------------------------------------------------------
(* The other scripts that post to /api/calibration of the same device      *)

(* simple_calibration_tool.py, what the operator types for the 'u' command *)
SimpleNames == {"brightMatrix", "darkMatrix", "Matrix"}
SimpleIndices == {0, 9, NotANumber}
SimpleValues == {500, NotANumber}

(* simple_calibration_tool.py lines 105-137: the 'u' command *)
(* what the update command did: the message of a refusal, or the request  *)
(* that update_matrix_value posted (lines 26-41)                           *)
Refused(msg) == [made |-> FALSE, msg |-> msg]
Request(matrix_name, index, value) ==
    [made |-> TRUE, matrix |-> matrix_name, index |-> index, value |-> value]

(* lines 124-126: "if index < 0 or index > 8" *)
IndexOutOfRange_Above9(index) == index < 0 \/ index > 9
IndexOutOfRange(index) == index < 0 \/ index > 8

(* lines 111-137: the update command with the three answers of the        *)
(* operator; posted: whether the POST came back with status 200           *)
UpdateCommand(matrix_name, index, value, posted) ==
    /\ others < MaxOthers
    /\ IF index = NotANumber \/ value = NotANumber
       THEN /\ sent' = Refused("Invalid input format")              \* line 134
            /\ UNCHANGED cal
       ELSE IF matrix_name \notin {"brightMatrix", "darkMatrix"}
       THEN /\ sent' = Refused("Invalid matrix name")               \* line 121
            /\ UNCHANGED cal
       ELSE IF IndexOutOfRange(index)
       THEN /\ sent' = Refused("Invalid index (must be 0-8)")       \* line 125
            /\ UNCHANGED cal
       ELSE /\ sent' = Request(matrix_name, index, value)
            /\ IF posted
               THEN cal' = SetCoef(cal, matrix_name, index, value)
               ELSE UNCHANGED cal
    /\ others' = others + 1
    /\ UNCHANGED <<codecVars, matchVars, pcT, cmd, current_target, current,
                   matrix_type, suggestions, calib, si, rounds, presented,
                   jsonVars>>

SimpleUpdate ==
    \E matrix_name \in SimpleNames, index \in SimpleIndices,
       value \in SimpleValues, posted \in BOOLEAN :
          UpdateCommand(matrix_name, index, value, posted)

(* test_matrix_calibration.py lines 20-33 *)
matrix_params ==
    [brightMatrix |-> <<1054, -170, -260, -170, 785, 17, 52, -100, 1268>>,
     useMatrixCalibration |-> TRUE, enableDynamicCalibration |-> TRUE,
     dynamicThreshold |-> 8000]

(* test_matrix_calibration.py lines 35-42: one POST with all of them *)
TestMatrixPost ==
    /\ others < MaxOthers
    /\ \E posted \in BOOLEAN :
          IF posted
          THEN cal' = [cal EXCEPT
                         !.brightMatrix = matrix_params.brightMatrix,
                         !.useMatrixCalibration = matrix_params.useMatrixCalibration,
                         !.enableDynamicCalibration =
                             matrix_params.enableDynamicCalibration,
                         !.dynamicThreshold = matrix_params.dynamicThreshold]
          ELSE UNCHANGED cal
    /\ others' = others + 1
    /\ UNCHANGED <<codecVars, matchVars, pcT, cmd, current_target, current,
                   matrix_type, suggestions, calib, si, rounds, presented,
                   sent, jsonVars>>

NextShared ==
    \/ NextTune
    \/ SimpleUpdate
    \/ TestMatrixPost

SpecShared == InitTune /\ [][NextShared]_vars

(* simple_calibration_tool on its own: the device holds the calibration a   *)
(* session of the live tool left, the expected one or one a single step off *)
SimpleCals ==
    {SetCoef(c, matrix, index, Coef(c, matrix, index) + d) :
        c \in InitialCals, matrix \in {"brightMatrix", "darkMatrix"},
        index \in {0, 4, 8}, d \in {0, adjustment_factor}}

InitSimple ==
    /\ CodecIdle
    /\ MatchIdle
    /\ JsonIdle
    /\ cal \in SimpleCals
    /\ pcT = "off" /\ cmd = "none"
    /\ current_target = "VIVID WHITE" /\ current = NoReading
    /\ matrix_type = "none" /\ suggestions = <<>> /\ calib = NoReading
    /\ si = 0 /\ rounds = 0 /\ presented = <<>>
    /\ others = 0 /\ sent = NoRequest

NextSimple == SimpleUpdate

SpecSimple == InitSimple /\ [][NextSimple]_vars

-----------------------------------------------------------------------------
(* Properties of the calibration tools                                     *)

(* the tool holds a reading and has just said which matrix is in use *)
Displayed ==
    \/ pcT = "proposing"
    \/ pcT = "prompt" /\ cmd = "r" /\ current # NoReading

\* C11: when useMatrixCalibration and enableDynamicCalibration are both true,
\* the matrix reported as in use for a reading is the bright one exactly when
\* the reading's Y is strictly greater than the threshold held in the device's
\* CalibrationState, and the dark one otherwise (Y equal to the threshold: dark).
C11_BrightAboveStateThreshold ==
    (Displayed /\ cal.useMatrixCalibration /\ cal.enableDynamicCalibration)
    => /\ matrix_type \in {"bright", "dark"}
       /\ matrix_type = "bright" <=> current.y > cal.dynamicThreshold

(* the tool holds the proposals it has just computed from the reading *)
ProposalsFresh ==
    \/ pcT \in {"applying", "apply_loop"}
    \/ pcT = "prompt" /\ cmd = "s" /\ current # NoReading

\* C12: every proposal is made on the matrix that the Transform Engine's
\* selection rule selects for the same sample under the device's current
\* CalibrationState (bright for every Y when enableDynamicCalibration is
\* false, by comparison of Y with the configured threshold when it is true).
C12_ProposalsOnSelectedMatrix ==
    (ProposalsFresh /\ cal.useMatrixCalibration)
    => \A sg \in Elems(suggestions) :
          sg.matrix = MatrixName(SelectMatrix(current.y, cal))

(* the tool holds a reading the device made under its present calibration *)
ReadingCurrent == current # NoReading /\ pcT # "apply_loop"
SampleOf(cur) == Sample(cur.x, cur.y, cur.z, cur.ir1, cur.ir2)
(* the sample without infrared that has the compensated X and Z of cur *)
IrFree(cur, c) ==
    Sample(cur.x - ((c.ir1Comp * cur.ir1) \div 100), cur.y,
           cur.z - ((c.ir2Comp * cur.ir2) \div 100), 0, 0)
WholeCompensation(cur, c) ==
    (c.ir1Comp * cur.ir1) % 100 = 0 /\ (c.ir2Comp * cur.ir2) % 100 = 0

\* C13: IR compensation comes before the matrix multiply: for every reading
\* and every CalibrationState the inputs of the multiply are
\* X' = X - ir1Comp*IR1, Y' = Y and Z' = Z - ir2Comp*IR2 (X = 5000, IR1 = 100,
\* ir1Comp = 0.30 give X' = 4970), Y is never changed by the compensation, and
\* the RGB of the reading is the RGB the engine gives the infrared-free sample
\* (X', Y, Z').
C13_CompensationBeforeMultiply ==
    ReadingCurrent
    => LET t == TransformEngine(SampleOf(current), cal)
       IN  /\ t.mul_in[1] = 100 * current.x - cal.ir1Comp * current.ir1
           /\ t.mul_in[2] = 100 * current.y
           /\ t.mul_in[3] = 100 * current.z - cal.ir2Comp * current.ir2
           /\ (current.x = 5000 /\ current.ir1 = 100 /\ cal.ir1Comp = 30)
              => t.mul_in[1] = 497000
           /\ <<current.r, current.g, current.b>> = <<t.r, t.g, t.b>>
           /\ WholeCompensation(current, cal)
              => LET u == TransformEngine(IrFree(current, cal), cal)
                 IN  <<current.r, current.g, current.b>> = <<u.r, u.g, u.b>>

C13_Witness ==
    /\ ReadingCurrent /\ pcT = "prompt"
    /\ current.x = 5000 /\ current.ir1 = 100 /\ cal.ir1Comp = 30
    /\ TransformEngine(SampleOf(current), cal).mul_in[1] = 497000

(* the proposals made for the coefficient with this index *)
ProposalsOn(index) == {sg \in Elems(suggestions) : sg.index = index}
ChannelAsClaimed(err, index) ==
    /\ Abs(err) <= 2 => ProposalsOn(index) = {}
    /\ err > 2 =>
         ProposalsOn(index) = {[matrix |-> MatrixName(matrix_type),
                                index |-> index, adjustment |-> -10]}
    /\ err < -2 =>
         ProposalsOn(index) = {[matrix |-> MatrixName(matrix_type),
                                index |-> index, adjustment |-> 10]}

\* C14: Proposing yields a proposal for a channel exactly when the observed
\* value differs from the target by more than 2 on that channel (a difference
\* of exactly 2 yields none), on coefficient 0 for R, 4 for G and 8 for B, with
\* delta -0.001 when the error is positive and +0.001 when it is negative, and
\* nothing else; target (168,160,147) with observed (175,160,147) and the dark
\* matrix active yields the single proposal darkMatrix0 -= 0.001.
C14_ProposalsOutsideDeadband ==
    ProposalsFresh
    => LET target == TargetOf(current_target)
       IN  /\ ChannelAsClaimed(current.r - target.r, 0)
           /\ ChannelAsClaimed(current.g - target.g, 4)
           /\ ChannelAsClaimed(current.b - target.b, 8)
           /\ \A sg \in Elems(suggestions) : sg.index \in {0, 4, 8}
           /\ \A i, j \in 1..Len(suggestions) :
                 suggestions[i].index = suggestions[j].index => i = j
           /\ (/\ target = [r |-> 168, g |-> 160, b |-> 147]
               /\ <<current.r, current.g, current.b>> = <<175, 160, 147>>
               /\ matrix_type = "dark")
              => suggestions = <<[matrix |-> "darkMatrix", index |-> 0,
                                  adjustment |-> -10]>>

C14_Witness ==
    /\ pcT = "prompt" /\ cmd = "s" /\ current # NoReading
    /\ current_target = "GREY PORT"
    /\ <<current.r, current.g, current.b>> = <<175, 160, 147>>
    /\ matrix_type = "dark"
    /\ suggestions = <<[matrix |-> "darkMatrix", index |-> 0, adjustment |-> -10]>>

\* C15: no coefficient of CalibrationState is written until the proposals have
\* been presented and the operator has confirmed them: every write is made by
\* the 'a' command (the confirmation) and writes a proposal that the 's'
\* command presented before it.
C15_WriteOnlyPresentedAndConfirmed ==
    [][cal' # cal
       => /\ pcT = "apply_loop" /\ cmd = "a"
          /\ suggestions[si + 1] \in Elems(presented)]_vars

(* the new value line 200 computes for the proposal sg *)
NewValue(sg) == Coef(calib, sg.matrix, sg.index) + sg.adjustment
OverBound(v) == Abs(v) > 10000

\* C16: in Applying, a proposal whose new value current + delta is greater
\* than 1.0 in absolute value is rejected and not written: the step that
\* handles it leaves CalibrationState unchanged (a coefficient that would
\* become 1.0007 is not applied).
C16_OverBoundNotWritten ==
    [][(pcT = "apply_loop" /\ si' = si + 1 /\ OverBound(NewValue(suggestions[si + 1])))
       => cal' = cal]_vars

(* of the proposals handled so far in this Applying step, the ones over    *)
(* the bound left their coefficient as it was read, the others wrote their *)
(* new value unless their POST failed                                      *)
OnlyOffendingRejected ==
    \A k \in 1..si :
       LET sg == suggestions[k]
           now == Coef(cal, sg.matrix, sg.index)
       IN  IF OverBound(NewValue(sg))
           THEN now = Coef(calib, sg.matrix, sg.index)
           ELSE now \in {NewValue(sg), Coef(calib, sg.matrix, sg.index)}

\* C17: a proposal over the safety bound is the only one rejected: the other
\* proposals of the same Applying step are still applied, the session is not
\* ended by it and the tool goes back to its prompt for a new reading.
C17_RejectsOnlyOffending ==
    [][/\ pcT' = "apply_loop" => OnlyOffendingRejected'
       /\ pcT = "apply_loop" => pcT' \in {"apply_loop", "prompt"}]_vars

(* the state of the Tuning Controller the tool is in *)
Phase ==
    IF pcT = "reading" THEN "Reading"
    ELSE IF pcT = "proposing" THEN "Proposing"
    ELSE IF pcT \in {"applying", "apply_loop"} THEN "Applying"
    ELSE IF pcT = "prompt" /\ cmd = "s" /\ presented # <<>>
         THEN "AwaitingConfirmation"
    ELSE "Idle"

\* C18: the controller moves along Idle -> Reading -> Proposing ->
\* AwaitingConfirmation -> Applying -> Idle (a cycle may be given up for Idle
\* or a new Reading before Applying): Applying is entered only from
\* AwaitingConfirmation and is left only for Idle.
C18_ApplyingOnlyAfterConfirmation ==
    [][/\ (Phase' = "Applying" /\ Phase # "Applying")
          => Phase = "AwaitingConfirmation"
       /\ (Phase = "Applying" /\ Phase' # "Applying") => Phase' = "Idle"
       /\ Phase' = "Reading" => Phase \in {"Idle", "AwaitingConfirmation", "Reading"}
       /\ Phase' = "Proposing" => Phase \in {"Reading", "Proposing"}
       /\ Phase' = "AwaitingConfirmation"
          => Phase \in {"Proposing", "AwaitingConfirmation"}]_vars

\* C19: Reading and Proposing never change CalibrationState: only the loop of
\* the Applying step writes, so a cycle given up before Applying (a reading,
\* shown suggestions, a switch of target, quit) leaves every coefficient, the
\* threshold, both flags and both IR factors as they were.
C19_NoWriteBeforeApplying ==
    [][pcT # "apply_loop" => cal' = cal]_vars

C19_Witness ==
    /\ pcT = "quit" /\ rounds = 0
    /\ presented # <<>> /\ current_target = "GREY PORT"
    /\ cal \in InitialCals

\* C20: no other write to a coefficient occurs between the moment Applying
\* reads its current value and the moment it writes current value + delta:
\* while the Applying loop runs, the coefficients of the proposals still to be
\* written hold the values that were read for them.
C20_NoWriteBetweenReadAndWrite ==
    pcT = "apply_loop"
    => \A k \in (si + 1)..Len(suggestions) :
          Coef(cal, suggestions[k].matrix, suggestions[k].index)
          = Coef(calib, suggestions[k].matrix, suggestions[k].index)

-----------------------------------------------------------------------------
(* Properties of the converter and the reader, continued                   *)

\* C21: every file for which convert_dulux_to_binary reports success passes
\* test_binary_format: the header has magic "DULX", version 1 and a non-zero
\* count, and the first min(3, count) records are read without a read error,
\* so the test returns True.
C21_SuccessPassesTest ==
    (result = "True" /\ pcD = "done")
    => /\ dresult = "True"
       /\ HeaderValid(file)
       /\ Len(decoded) = Min(3, HeaderCount(file))


(* Properties of the writers of data/dulux.bin *)
\* C22: the binary layouts are never mixed: a file that create_binary_database
\* wrote under the 16-byte header with magic "DULX" and version 1 holds its
\* records in the canonical variable-length layout, so the canonical reader
\* decodes from the first record the name and the colour the writer was given.
C22_HeaderImpliesCanonicalRecords ==
    (pcM \in {"scan", "done"} /\ added = "no" /\ fexists /\ HeaderValid(file))
    => LET e == ReadEntry(file, 16)
       IN  /\ e.ok
           /\ e.rec.name = db[1].name
           /\ e.rec.r = db[1].r /\ e.rec.g = db[1].g /\ e.rec.b = db[1].b


\* C23: each record is written all or nothing: an iteration of the converter
\* that skips its record or ends in an error (a negative LRV, an id outside
\* uint32, a string still longer than 255 bytes after truncation) leaves the
\* output file as it was before the iteration.
C23_RecordAllOrNothing ==
    [][(pcE = "loop" /\ ei' = ei + 1 /\ elog'[ei'].status # "written")
       => file' = file]_vars


\* C24: every adjustment that 'a' applies is one that 's' last presented:
\* while the apply loop runs, the set of (matrix, index, delta) it applies is
\* the set most recently displayed by 's'.
C24_AppliedIsLastPresented ==
    pcT = "apply_loop" => Elems(suggestions) = Elems(presented)


(* what one run of the apply loop has changed so far: the coefficients of  *)
(* the device that differ from the calibration read when the step began    *)
Diagonal == {0, 4, 8}
ChangedIn(matrix) == {i \in 0..8 : Coef(cal, matrix, i) # Coef(calib, matrix, i)}
StepOf(matrix) ==
    \A i \in ChangedIn(matrix) :
        /\ i \in Diagonal
        /\ Coef(cal, matrix, i) - Coef(calib, matrix, i)
             \in {adjustment_factor, 0 - adjustment_factor}

\* C25: one apply step changes at most the three diagonal coefficients (0, 4
\* and 8) of a single matrix, each by exactly 0.001 up or down from the value
\* CalibrationState held before the step; the off-diagonal coefficients, the
\* other matrix, the threshold, the two flags and the IR factors keep their
\* values.
C25_ApplyChangesOnlyDiagonalByStep ==
    pcT = "apply_loop"
    => /\ StepOf("brightMatrix") /\ StepOf("darkMatrix")
       /\ ChangedIn("brightMatrix") = {} \/ ChangedIn("darkMatrix") = {}
       /\ cal.dynamicThreshold = calib.dynamicThreshold
       /\ cal.useMatrixCalibration = calib.useMatrixCalibration
       /\ cal.enableDynamicCalibration = calib.enableDynamicCalibration
       /\ cal.ir1Comp = calib.ir1Comp /\ cal.ir2Comp = calib.ir2Comp

C25_Witness ==
    /\ pcT = "apply_loop" /\ si = Len(suggestions)
    /\ ChangedIn("darkMatrix") = Diagonal


\* C26: a failed write of one proposal does not stop the apply step: whether
\* update_matrix returns True or False, the loop goes on to the next proposal
\* and is left only after the last one, so the step can end with a subset of
\* the proposals written.
C26_FailedWriteDoesNotStopStep ==
    [][(pcT = "apply_loop" /\ si < Len(suggestions))
       => (pcT' = "apply_loop" /\ si' = si + 1)]_vars

(* the first write failed, the two after it were made *)
C26_Witness ==
    /\ pcT = "apply_loop" /\ si = Len(suggestions) /\ Len(suggestions) = 3
    /\ ChangedIn("darkMatrix") = {4, 8}


(* an answer the update command must refuse *)
InvalidUpdate(matrix_name, index, value) ==
    \/ matrix_name \notin {"brightMatrix", "darkMatrix"}
    \/ index = NotANumber \/ value = NotANumber
    \/ index \notin 0..8

----------------------------------------------------------------------------
(* update_target_colors.py: the two calibration targets in the colour list *)

VividWhite == <<86, 105, 118, 105, 100, 32, 87, 104, 105, 116, 101>>

(* lines 19-25: "if color['name'] == 'Grey Port'" over the whole list *)
grey_port_exists_Never(list) == FALSE
grey_port_exists(list) == \E i \in 1..Len(list) : list[i].name = GreyPort

(* lines 29-38: code "GP001", lrv "42.0", id str(len(colors) + 1) *)
grey_port(list) ==
    TargetColor(GreyPort, <<71, 80, 48, 48, 49>>, 4200, 168, 160, 147,
                Len(list) + 1)

(* lines 56-65: code "SW1G1", lrv "94.0", lightText False *)
vivid_white(list) ==
    [TargetColor(VividWhite, <<83, 87, 49, 71, 49>>, 9400, 247, 248, 244,
                 Len(list) + 1) EXCEPT !.lightText = FALSE]

(* lines 27-40: colors.insert(0, grey_port) when there is none *)
WithGreyPort(list) ==
    IF grey_port_exists(list) THEN list ELSE <<grey_port(list)>> \o list

(* the index of the first colour with that name, 0 when there is none *)
FirstNamed(list, nm) ==
    IF \E i \in 1..Len(list) : list[i].name = nm
    THEN CHOOSE i \in 1..Len(list) :
            /\ list[i].name = nm
            /\ \A j \in 1..(i - 1) : list[j].name # nm
    ELSE 0

(* lines 42-67: the first Vivid White gets the target RGB; when there is   *)
(* none, colors.insert(1, vivid_white)                                     *)
WithVividWhite(list) ==
    LET i == FirstNamed(list, VividWhite)
    IN  IF i # 0
        THEN [list EXCEPT ![i].r = 247, ![i].g = 248, ![i].b = 244]
        ELSE IF list = <<>> THEN <<vivid_white(list)>>
        ELSE <<Head(list), vivid_white(list)>> \o Tail(list)

(* lines 10-81, the list that is saved *)
update_color_database(list) == WithVividWhite(WithGreyPort(list))

(* lines 154-157 *)
targets == <<[name |-> GreyPort, rgb |-> <<168, 160, 147>>],
             [name |-> VividWhite, rgb |-> <<247, 248, 244>>]>>

(* lines 159-171: the line printed for one target *)
VerifyTarget(list, target) ==
    LET i == FirstNamed(list, target.name)
    IN  IF i = 0 THEN "not found in database"
        ELSE IF ~Parses(list[i]) THEN "ValueError"
        ELSE IF <<list[i].r, list[i].g, list[i].b>> = target.rgb THEN "CORRECT"
        ELSE "Expected"

(* lines 10-81 with create_binary_database (83-147): the list is saved,    *)
(* then the binary file is rewritten; int() of a component that is not a   *)
(* number ends the run after the save                                      *)
UpdateColorDatabase ==
    /\ pcU \in {"start", "done", "crashed"} /\ runs < MaxRuns
    /\ db' = update_color_database(db)
    /\ LET out == create_binary_database(db')
       IN  /\ file' = out.bytes
           /\ fexists' = TRUE
           /\ pcU' = IF out.ok THEN "verify" ELSE "crashed"
    /\ runs' = runs + 1
    /\ verdict' = <<>>
    /\ UNCHANGED <<colors, isList, pcE, ei, result, elog, tampered,
                   pcD, pos, di, decoded, dresult,
                   added, report, pcM, m_colors, mi, close_matches, shown,
                   tuneVars, fixVars>>

(* lines 149-173: verify_target_colors, called by main after the update *)
VerifyTargetColors ==
    /\ pcU = "verify"
    /\ verdict' = <<VerifyTarget(db, targets[1]), VerifyTarget(db, targets[2])>>
    /\ pcU' = IF "ValueError" \in Elems(verdict') THEN "crashed" ELSE "done"
    /\ UNCHANGED <<codecVars, matchVars, tuneVars, runs, fixVars>>

(* colours of data/dulux_fixed.json before the script is run *)
UpdateDb ==
    {DbColor(<<83, 97, 109, 101>>, 168, 160, 147, 11),              \* "Same"
     DbColor(GreyPort, 168, 160, 147, 12),
     DbColor(GreyPort, 170, 162, 150, 13),
     DbColor(VividWhite, 255, 255, 255, 14),
     DbColor(<<66, 97, 100>>, NotANumber, 10, 10, 16)}              \* r: "abc"

InitUpdate ==
    /\ CodecIdle
    /\ db \in SeqsUpTo(UpdateDb, MaxDb)
    /\ added = "no" /\ report = "none" /\ pcM = "off"
    /\ m_colors = <<>> /\ mi = 0 /\ close_matches = <<>> /\ shown = <<>>
    /\ TuneIdle
    /\ pcU = "start" /\ runs = 0 /\ verdict = <<>>
    /\ FixIdle

NextUpdate ==
    \/ UpdateColorDatabase
    \/ VerifyTargetColors

SpecUpdate == InitUpdate /\ [][NextUpdate]_vars

\* C28: update_color_database is idempotent on the colour list: a run made
\* after an earlier run leaves the list as that run saved it (no second Grey
\* Port, no second Vivid White).
C28_UpdateIdempotent ==
    [][(runs' = runs + 1 /\ runs >= 1) => db' = db]_vars

(* both targets were added by the first run, the second run has been made *)
C28_Witness ==
    /\ runs = 2 /\ Len(db) = 3
    /\ db[1].name = GreyPort /\ db[2].name = VividWhite
    /\ db[3].name \notin {GreyPort, VividWhite}

\* C29: after update_color_database, verify_target_colors succeeds: the first
\* colour named Grey Port has RGB (168, 160, 147) and the first colour named
\* Vivid White has RGB (247, 248, 244).
C29_VerifySucceeds ==
    pcU = "done" => verdict = <<"CORRECT", "CORRECT">>


----------------------------------------------------------------------------
(* fix_and_convert_dulux.py: fix_json_file.  A text is a sequence of       *)
(* characters; a run of characters that are neither a brace, a bracket, a  *)
(* quote, a backslash nor white space is written as one element ("name",   *)
(* ":"), since the scanner only appends them.                              *)

IsSpace(ch) == ch = " "
RECURSIVE LStripText(_)
LStripText(t) ==
    IF t # <<>> /\ IsSpace(Head(t)) THEN LStripText(Tail(t)) ELSE t
RECURSIVE RStripText(_)
RStripText(t) ==
    IF t # <<>> /\ IsSpace(t[Len(t)])
    THEN RStripText(SubSeq(t, 1, Len(t) - 1)) ELSE t
StripText(t) == RStripText(LStripText(t))
EndsWith(t, ch) == t # <<>> /\ t[Len(t)] = ch

(* lines 18-26: the opening and the closing bracket are removed *)
Unbracket(t) ==
    LET a == LStripText(t)
        b == IF a # <<>> /\ Head(a) = "[" THEN Tail(a) ELSE a
        c == RStripText(b)
    IN  IF EndsWith(c, "]") THEN SubSeq(c, 1, Len(c) - 1) ELSE c

(* lines 56-60: "When we complete an object" *)
Complete(st) ==
    IF st.brace_count = 0 /\ EndsWith(StripText(st.current_obj), "}")
    THEN [st EXCEPT !.objects = Append(@, StripText(st.current_obj)),
                    !.current_obj = <<>>]
    ELSE st

(* lines 35-60: the body of "for char in content" *)
ScanChar(st, char) ==
    IF st.escape_next
    THEN [st EXCEPT !.current_obj = Append(@, char), !.escape_next = FALSE]
    ELSE IF char = "\\"
    THEN [st EXCEPT !.current_obj = Append(@, char), !.escape_next = TRUE]
    ELSE LET in_string == IF char = "\"" THEN ~st.in_string ELSE st.in_string
             brace_count ==
                 IF in_string THEN st.brace_count
                 ELSE IF char = "{" THEN st.brace_count + 1
                 ELSE IF char = "}" THEN st.brace_count - 1
                 ELSE st.brace_count
         IN  Complete([st EXCEPT !.in_string = in_string,
                                 !.brace_count = brace_count,
                                 !.current_obj = Append(@, char)])

(* the JSON text of an object with the fields name, r, g and b, as         *)
(* json.dumps writes it without white space; name: the characters of the   *)
(* name, name_text: the same with a backslash before a quote               *)
Pair(key, value) == <<"\"", key, "\"", ":">> \o value
Quoted(t) == <<"\"">> \o t \o <<"\"">>
ObjText(o) ==
    <<"{">> \o Pair("name", Quoted(o.name_text)) \o <<",">>
            \o Pair("r", Quoted(o.r_text)) \o <<",">>
            \o Pair("g", <<"2">>) \o <<",">>
            \o Pair("b", <<"3">>) \o <<"}">>

JsonObject(nm, nm_text, rr, rr_text) ==
    [name |-> nm, name_text |-> nm_text, r |-> rr, r_text |-> rr_text,
     g |-> 2, b |-> 3]
JsonObjects ==
    {JsonObject(<<"A">>, <<"A">>, 1, <<"1">>),
     JsonObject(<<"B", "}">>, <<"B", "}">>, 200, <<"200">>),
     JsonObject(<<"C", "\"", "{">>, <<"C", "\\", "\"", "{">>, 1, <<"1">>),
     JsonObject(<<"D">>, <<"D">>, NotANumber, <<"abc">>)}

(* line 68: json.loads(obj_str).  Of the strings the scanner hands over,   *)
(* the JSON documents are the texts of objects; a string that begins with  *)
(* a comma raises JSONDecodeError ("Expecting value")                      *)
json_loads(obj_str) ==
    IF \E o \in JsonObjects : ObjText(o) = obj_str
    THEN [ok |-> TRUE, color |-> CHOOSE o \in JsonObjects : ObjText(o) = obj_str]
    ELSE [ok |-> FALSE]

(* lines 71-86: the colour kept for object i (counted from 0); the fields  *)
(* code, lrv, id and lightText are missing and get their defaults          *)
KeptColor(o, i) ==
    [name |-> o.name, r |-> o.r, g |-> o.g, b |-> o.b,
     code |-> <<67, 48, 48, 48, 48, 48 + i + 1>>, lrv |-> 5000, id |-> i + 1,
     lightText |-> 299 * o.r + 587 * o.g + 114 * o.b < 128000]

(* lines 64-93: the loop over the object strings; int() of a component     *)
(* that is not a number (line 82) is not caught                            *)
RECURSIVE ParseObjects(_, _)
ParseObjects(objs, n) ==          \* after the first n iterations
    IF n = 0 THEN [ok |-> TRUE, list |-> <<>>]
    ELSE IF ~ParseObjects(objs, n - 1).ok THEN ParseObjects(objs, n - 1)
    ELSE IF ~json_loads(objs[n]).ok THEN ParseObjects(objs, n - 1)
    ELSE IF json_loads(objs[n]).color.r = NotANumber
         THEN [ok |-> FALSE, list |-> ParseObjects(objs, n - 1).list]
    ELSE [ok |-> TRUE,
          list |-> Append(ParseObjects(objs, n - 1).list,
                          KeptColor(json_loads(objs[n]).color, n - 1))]

(* lines 15-33: read the file, remove the brackets, start the scanner *)
FixRead ==
    /\ pcF = "start"
    /\ content' = Unbracket(content)
    /\ scan' = ScanStart /\ ci' = 0
    /\ pcF' = "scan"
    /\ UNCHANGED <<codecVars, matchVars, tuneVars, updVars, source,
                   valid_colors, fixed_json, fix_result>>

(* lines 35-60: one iteration of "for char in content" *)
FixScanChar ==
    /\ pcF = "scan" /\ ci < Len(content)
    /\ scan' = ScanChar(scan, content[ci + 1])
    /\ ci' = ci + 1
    /\ UNCHANGED <<codecVars, matchVars, tuneVars, updVars, source, content,
                   valid_colors, pcF, fixed_json, fix_result>>

(* lines 62-95: parse and validate each object *)
FixParse ==
    /\ pcF = "scan" /\ ci = Len(content)
    /\ LET res == ParseObjects(scan.objects, Len(scan.objects))
       IN  /\ valid_colors' = res.list
           /\ pcF' = IF res.ok THEN "save" ELSE "crashed"
    /\ UNCHANGED <<codecVars, matchVars, tuneVars, updVars, source, content,
                   scan, ci, fixed_json, fix_result>>

(* lines 97-103: write the fixed JSON, return len(valid_colors) *)
FixSave ==
    /\ pcF = "save"
    /\ fixed_json' = valid_colors
    /\ fix_result' = Len(valid_colors)
    /\ pcF' = "done"
    /\ UNCHANGED <<codecVars, matchVars, tuneVars, updVars, source, content,
                   scan, ci, valid_colors>>

(* a well-formed JSON array of the objects: the texts separated by sep,    *)
(* with pad inside the brackets                                            *)
RECURSIVE Joined(_, _)
Joined(objs, sep) ==
    IF objs = <<>> THEN <<>>
    ELSE IF Len(objs) = 1 THEN ObjText(objs[1])
    ELSE ObjText(objs[1]) \o sep \o Joined(Tail(objs), sep)
ArrayText(objs, sep, pad) == <<"[">> \o pad \o Joined(objs, sep) \o pad \o <<"]">>
Separators == {<<",">>, <<",", " ">>}
Pads == {<<>>, <<" ">>}

InitFix ==
    /\ CodecIdle
    /\ MatchIdle
    /\ TuneIdle
    /\ UpdIdle
    /\ source \in SeqsUpTo(JsonObjects, MaxObjects)
    /\ \E sep \in Separators, pad \in Pads : content = ArrayText(source, sep, pad)
    /\ scan = ScanStart /\ ci = 0 /\ valid_colors = <<>>
    /\ pcF = "start" /\ fixed_json = <<>> /\ fix_result = 0

NextFix ==
    \/ FixRead
    \/ FixScanChar
    \/ FixParse
    \/ FixSave

SpecFix == InitFix /\ [][NextFix]_vars

\* C30: fix_json_file loses no valid object: for a well-formed JSON array of
\* N comma-separated objects that each have name, r, g and b, the scanner
\* splits the text into N object strings, all N are parsed and kept in their
\* order, and the function returns N.
C30_NoValidObjectLost ==
    pcF = "done"
    => /\ Len(scan.objects) = Len(source)
       /\ fix_result = Len(source)
       /\ Len(fixed_json) = Len(source)
       /\ \A i \in 1..Len(source) :
             i <= Len(fixed_json) => fixed_json[i].name = source[i].name

====
